---- MODULE Spec2Model ----
(***************************************************************************)
(* Model of recipe_finder_app.py: the text normalizer, the ingredient      *)
(* matcher, the recipe filter and the Streamlit session driven by main().  *)
(*                                                                         *)
(* A Python str is a sequence of one-character strings, so that lower(),   *)
(* re.sub, strip(), split(), `in` and `<` are computed character by        *)
(* character.                                                              *)
(***************************************************************************)
EXTENDS Integers, Sequences, FiniteSets, TLC

VARIABLES
    pc,                \* which call or session the behaviour is, and its stage
    text, norm_out,    \* normalize_text: argument and return value
    user_ing, recipe_ing, match_out,      \* ingredient_matches: likewise
    recipes,           \* the catalog (load_recipes)
    user_ingredients, results,            \* find_matching_recipes: likewise
    new_ingredient,    \* the value of the text input "new_ingredient_input"
    ingredients,       \* st.session_state.ingredients
    selected_recipe    \* st.session_state.selected_recipe

normalizeVars == <<text, norm_out>>

matchVars == <<user_ing, recipe_ing, match_out>>

filterVars == <<recipes, user_ingredients, results>>

sessionVars == <<new_ingredient, ingredients, selected_recipe>>

vars == <<pc, normalizeVars, matchVars, filterVars, sessionVars>>

\* None where a str is expected.
None == [i \in {0} |-> "None"]

\* None in st.session_state.selected_recipe, where a result dict is expected.
NoSelection == [none |-> TRUE]

(***************************************************************************)
(* Characters                                                              *)
(***************************************************************************)
LowerLetters == <<"a","b","c","d","e","f","g","h","i","j","k","l","m",
                  "n","o","p","q","r","s","t","u","v","w","x","y","z">>

UpperLetters == <<"A","B","C","D","E","F","G","H","I","J","K","L","M",
                  "N","O","P","Q","R","S","T","U","V","W","X","Y","Z">>

LowerSet == {LowerLetters[i] : i \in 1..26}

UpperSet == {UpperLetters[i] : i \in 1..26}

IsLower(c) == c \in LowerSet

IsUpper(c) == c \in UpperSet

LetterIndex(c, letters) == CHOOSE i \in 1..26 : letters[i] = c

\* ord(c) for the characters the model uses (ASCII).
OrdTable ==
    [c \in LowerSet \cup UpperSet \cup {" ", "!", "-", "1"} |->
        IF IsLower(c) THEN 96 + LetterIndex(c, LowerLetters)
        ELSE IF IsUpper(c) THEN 64 + LetterIndex(c, UpperLetters)
        ELSE IF c = " " THEN 32
        ELSE IF c = "!" THEN 33
        ELSE IF c = "-" THEN 45
        ELSE 49]

Ord(c) == OrdTable[c]

\* str.lower(), one character: A-Z go to a-z, the rest is kept.
LowerTable == [c \in UpperSet |-> LowerLetters[LetterIndex(c, UpperLetters)]]

LowerChar(c) == IF IsUpper(c) THEN LowerTable[c] ELSE c

\* str.lower()
Lower(s) == [i \in 1..Len(s) |-> LowerChar(s[i])]

(***************************************************************************)
(* String literals, spelled as character sequences                         *)
(***************************************************************************)
S_1_Cup_All_Purpose_Flour_ == <<"1"," ","C","u","p"," ","A","l","l","-","P","u","r","p","o","s","e"," ","F","l","o","u","r","!">>

S_cup_allpurpose_flour == <<"c","u","p"," ","a","l","l","p","u","r","p","o","s","e"," ","f","l","o","u","r">>

S_Egg == <<"E","g","g">>

S_ox == <<"o","x">>

S_chick == <<"c","h","i","c","k">>

S_xyz == <<"x","y","z">>

S_garlic == <<"g","a","r","l","i","c">>

S_egg == <<"e","g","g">>

S_eggs == <<"e","g","g","s">>

S_fox_meat == <<"f","o","x"," ","m","e","a","t">>

S_fox_egg == <<"f","o","x"," ","e","g","g">>

S_chicken_breast == <<"c","h","i","c","k","e","n"," ","b","r","e","a","s","t">>

S_minced_garlic_cloves == <<"m","i","n","c","e","d"," ","g","a","r","l","i","c"," ","c","l","o","v","e","s">>

S_scrambled_eggs == <<"s","c","r","a","m","b","l","e","d"," ","e","g","g","s">>

S_Apple_Pie == <<"A","p","p","l","e"," ","P","i","e">>

S_Apple_pie == <<"A","p","p","l","e"," ","p","i","e">>

S_apple_pie == <<"a","p","p","l","e"," ","p","i","e">>

S_Apple == <<"A","p","p","l","e">>

S_Banana_Bread == <<"B","a","n","a","n","a"," ","B","r","e","a","d">>

S_chicken == <<"c","h","i","c","k","e","n">>

S_beef == <<"b","e","e","f">>

S_salmon == <<"s","a","l","m","o","n">>

S_pork == <<"p","o","r","k">>

S_rice == <<"r","i","c","e">>

S_pasta == <<"p","a","s","t","a">>

S_potato == <<"p","o","t","a","t","o">>

S_cheese == <<"c","h","e","e","s","e">>

S_onion == <<"o","n","i","o","n">>

S_tomato == <<"t","o","m","a","t","o">>

S_Chicken == <<"C","h","i","c","k","e","n">>

S_rice_ == <<"r","i","c","e"," ">>

S_cream == <<"c","r","e","a","m">>

S_basil == <<"b","a","s","i","l">>

S_Tomato_Soup == <<"T","o","m","a","t","o"," ","S","o","u","p">>

S_Tomato_Salad == <<"T","o","m","a","t","o"," ","S","a","l","a","d">>

S_Chicken_Rice == <<"C","h","i","c","k","e","n"," ","R","i","c","e">>

S_Basil == <<"B","a","s","i","l">>

(***************************************************************************)
(* normalize_text                                                          *)
(***************************************************************************)
\* re.sub(r'[^a-z ]', '', s): every character outside a-z and space is deleted.
RECURSIVE ReSubDelete(_)
ReSubDelete(s) ==
    IF s = <<>> THEN <<>>
    ELSE IF IsLower(Head(s)) \/ Head(s) = " "
         THEN <<Head(s)>> \o ReSubDelete(Tail(s))
         ELSE ReSubDelete(Tail(s))

\* A plausible slip: the character class replaced by a space instead of deleted.
RECURSIVE ReSubSpace(_)
ReSubSpace(s) ==
    IF s = <<>> THEN <<>>
    ELSE IF IsLower(Head(s)) \/ Head(s) = " "
         THEN <<Head(s)>> \o ReSubSpace(Tail(s))
         ELSE <<" ">> \o ReSubSpace(Tail(s))

RECURSIVE LStrip(_)
LStrip(s) == IF s # <<>> /\ Head(s) = " " THEN LStrip(Tail(s)) ELSE s

RECURSIVE RStrip(_)
RStrip(s) ==
    IF s # <<>> /\ s[Len(s)] = " " THEN RStrip(SubSeq(s, 1, Len(s) - 1)) ELSE s

\* str.strip() on a string whose only whitespace is the space.
Strip(s) == RStrip(LStrip(s))

\* `not text`: None and the empty string are falsy.
Falsy(v) == v = None \/ v = <<>>

\* normalize_text with the slip above.
normalize_text_spaced(t) ==
    IF Falsy(t) THEN <<>> ELSE Strip(ReSubSpace(Lower(t)))

normalize_text(t) ==
    IF Falsy(t) THEN <<>> ELSE Strip(ReSubDelete(Lower(t)))

(***************************************************************************)
(* ingredient_matches                                                      *)
(***************************************************************************)
\* Python's `a in b` on strings: a occurs in b as a contiguous substring.
In(a, b) ==
    \E k \in 0..(Len(b) - Len(a)) : SubSeq(b, k + 1, k + Len(a)) = a

\* str.split() with no argument: the maximal runs of non-space characters,
\* scanned left to right; cur is the run being built.
RECURSIVE SplitFrom(_, _)
SplitFrom(s, cur) ==
    IF s = <<>> THEN (IF cur = <<>> THEN <<>> ELSE <<cur>>)
    ELSE IF Head(s) = " "
         THEN (IF cur = <<>> THEN <<>> ELSE <<cur>>) \o SplitFrom(Tail(s), <<>>)
         ELSE SplitFrom(Tail(s), Append(cur, Head(s)))

Split(s) == SplitFrom(s, <<>>)

MinUserWordLen == 3

MinRecipeWordLen == 2

LongUserWord(w) == Len(w) >= MinUserWordLen

LongRecipeWord(w) == Len(w) >= MinRecipeWordLen

\* The word-level loops: True at the first pair with uw in rw or rw in uw.
WordLevelMatch(user_words, recipe_words) ==
    \E i \in 1..Len(user_words) : \E j \in 1..Len(recipe_words) :
        In(user_words[i], recipe_words[j]) \/ In(recipe_words[j], user_words[i])

\* A plausible slip: the user-side filter uses the recipe-side threshold.
ingredient_matches_short_words(u, r) ==
    LET user == normalize_text(u)
        recipe == normalize_text(r)
    IN  IF user = <<>> \/ recipe = <<>> THEN FALSE
        ELSE IF In(user, recipe) \/ In(recipe, user) THEN TRUE
        ELSE WordLevelMatch(SelectSeq(Split(user), LongRecipeWord),
                            SelectSeq(Split(recipe), LongRecipeWord))

\* A plausible slip: the word-level test looks one way only.
ingredient_matches_one_way(u, r) ==
    LET user == normalize_text(u)
        recipe == normalize_text(r)
        user_words == SelectSeq(Split(user), LongUserWord)
        recipe_words == SelectSeq(Split(recipe), LongRecipeWord)
    IN  IF user = <<>> \/ recipe = <<>> THEN FALSE
        ELSE IF In(user, recipe) \/ In(recipe, user) THEN TRUE
        ELSE \E i \in 1..Len(user_words) : \E j \in 1..Len(recipe_words) :
                In(user_words[i], recipe_words[j])

ingredient_matches(u, r) ==
    LET user == normalize_text(u)
        recipe == normalize_text(r)
    IN  IF user = <<>> \/ recipe = <<>> THEN FALSE
        ELSE IF In(user, recipe) \/ In(recipe, user) THEN TRUE
        ELSE WordLevelMatch(SelectSeq(Split(user), LongUserWord),
                            SelectSeq(Split(recipe), LongRecipeWord))

(***************************************************************************)
(* find_matching_recipes                                                   *)
(***************************************************************************)
\* Python's `<` on str: lexicographic by code point, a proper prefix is smaller.
RECURSIVE StrLess(_, _)
StrLess(a, b) ==
    IF b = <<>> THEN FALSE
    ELSE IF a = <<>> THEN TRUE
    ELSE IF Ord(Head(a)) < Ord(Head(b)) THEN TRUE
    ELSE IF Ord(Head(a)) > Ord(Head(b)) THEN FALSE
    ELSE StrLess(Tail(a), Tail(b))

\* `x in lst` on a list of strings.
InList(x, lst) == \E k \in 1..Len(lst) : lst[k] = x

\* A plausible slip: the inner loop without its break keeps the last match.
RECURSIVE LastMatchFrom(_, _, _)
LastMatchFrom(u, normalized, j) ==
    IF j > Len(normalized) THEN 0
    ELSE LET later == LastMatchFrom(u, normalized, j + 1)
         IN  IF later # 0 THEN later
             ELSE IF ingredient_matches(u, normalized[j]) THEN j ELSE 0

\* The inner loop: index of the first recipe_ing, in stored order, that
\* ingredient_matches accepts (the break), 0 when the loop ends without one.
RECURSIVE FirstMatchFrom(_, _, _)
FirstMatchFrom(u, normalized, j) ==
    IF j > Len(normalized) THEN 0
    ELSE IF ingredient_matches(u, normalized[j]) THEN j
    ELSE FirstMatchFrom(u, normalized, j + 1)

\* A plausible slip: has_all is never cleared, the outer loop goes on past
\* a user ingredient without a match.
RECURSIVE MatchLoopNeverFails(_, _, _, _)
MatchLoopNeverFails(user_ings, normalized, i, matched) ==
    IF i > Len(user_ings) THEN [has_all |-> TRUE, matched |-> matched]
    ELSE LET j == FirstMatchFrom(user_ings[i], normalized, 1)
         IN  IF j = 0 THEN MatchLoopNeverFails(user_ings, normalized, i + 1, matched)
             ELSE MatchLoopNeverFails(user_ings, normalized, i + 1,
                                      Append(matched, normalized[j]))

\* The outer loop over user_ingredients from position i on; it stops at the
\* first user ingredient without a match.
RECURSIVE MatchLoop(_, _, _, _)
MatchLoop(user_ings, normalized, i, matched) ==
    IF i > Len(user_ings) THEN [has_all |-> TRUE, matched |-> matched]
    ELSE LET j == FirstMatchFrom(user_ings[i], normalized, 1)
         IN  IF j = 0 THEN [has_all |-> FALSE, matched |-> matched]
             ELSE MatchLoop(user_ings, normalized, i + 1,
                            Append(matched, normalized[j]))

\* lst without the first occurrence of x.
RECURSIVE RemoveFirst(_, _)
RemoveFirst(lst, x) ==
    IF lst = <<>> THEN <<>>
    ELSE IF Head(lst) = x THEN Tail(lst)
    ELSE <<Head(lst)>> \o RemoveFirst(Tail(lst), x)

\* A plausible slip: each matched entry consumes one occurrence only.
RECURSIVE OtherOfConsuming(_, _)
OtherOfConsuming(normalized, matched) ==
    IF matched = <<>> THEN normalized
    ELSE OtherOfConsuming(RemoveFirst(normalized, Head(matched)), Tail(matched))

\* [ing for ing in normalized if ing not in matched]
RECURSIVE OtherOf(_, _)
OtherOf(normalized, matched) ==
    IF normalized = <<>> THEN <<>>
    ELSE IF InList(Head(normalized), matched)
         THEN OtherOf(Tail(normalized), matched)
         ELSE <<Head(normalized)>> \o OtherOf(Tail(normalized), matched)

\* The body of `for recipe in recipes`, from catalog position p on: the
\* results list in catalog order, before the sort.
RECURSIVE ScanRecipes(_, _, _)
ScanRecipes(catalog, user_ings, p) ==
    IF p > Len(catalog) THEN <<>>
    ELSE LET recipe == catalog[p]
             normalized == recipe.ingredients_normalized
             m == MatchLoop(user_ings, normalized, 1, <<>>)
         IN  IF normalized = <<>> THEN ScanRecipes(catalog, user_ings, p + 1)
             ELSE IF m.has_all
                  THEN <<[name |-> recipe.name,
                          filename |-> recipe.filename,
                          matched |-> m.matched,
                          other |-> OtherOf(normalized, m.matched),
                          total |-> Len(normalized)]>>
                       \o ScanRecipes(catalog, user_ings, p + 1)
                  ELSE ScanRecipes(catalog, user_ings, p + 1)

\* list.sort(key=name) is stable: x goes before the first element whose key
\* is strictly greater than x's, after every element with an equal key.
RECURSIVE InsertByName(_, _)
InsertByName(x, sorted) ==
    IF sorted = <<>> THEN <<x>>
    ELSE IF StrLess(x.name, Head(sorted).name) THEN <<x>> \o sorted
    ELSE <<Head(sorted)>> \o InsertByName(x, Tail(sorted))

RECURSIVE SortByName(_)
SortByName(lst) ==
    IF lst = <<>> THEN <<>>
    ELSE InsertByName(lst[Len(lst)], SortByName(SubSeq(lst, 1, Len(lst) - 1)))

\* A plausible slip: the sort is left out.
find_matching_recipes_unsorted(catalog, user_ings) ==
    IF Falsy(user_ings) THEN <<>>
    ELSE ScanRecipes(catalog, user_ings, 1)

\* A plausible slip: the guard on an empty user list is left out.
find_matching_recipes_unguarded(catalog, user_ings) ==
    SortByName(ScanRecipes(catalog, user_ings, 1))

find_matching_recipes(catalog, user_ings) ==
    IF Falsy(user_ings) THEN <<>>
    ELSE SortByName(ScanRecipes(catalog, user_ings, 1))

(***************************************************************************)
(* Bounded inputs                                                          *)
(***************************************************************************)
MaxTextLen == 4

MaxUserLen == 4

MaxRecipeLen == 4

\* Every string over alphabet of length at most n.
Strings(alphabet, n) == UNION {[1..k -> alphabet] : k \in 0..n}

NormAlphabet == {"a", "B", " ", "1", "-"}

MatchAlphabet == {"a", "b", " "}

TextInputs ==
    Strings(NormAlphabet, MaxTextLen) \cup {None, S_1_Cup_All_Purpose_Flour_}

UserInputs ==
    Strings(MatchAlphabet, MaxUserLen)
        \cup {S_Egg, S_ox, S_chick, S_xyz, S_garlic}

RecipeInputs ==
    Strings(MatchAlphabet, MaxRecipeLen)
        \cup {S_eggs, S_fox_meat, S_chicken_breast, S_chicken,
              S_minced_garlic_cloves, S_scrambled_eggs}

MaxRecipes == 2

MaxRecipeIngredients == 2

MaxUserIngredients == 2

MaxSortRecipes == 3

\* Every list over pool of length at most n.
Lists(pool, n) == UNION {[1..k -> pool] : k \in 0..n}

IngredientPool == {S_egg, S_fox_egg}

UserPool == {S_Egg, S_ox}

FilterNames == {S_Tomato_Soup}

SortNames == {S_Apple, S_Apple_Pie, S_Apple_pie, S_Banana_Bread, S_apple_pie}

\* The catalogs of at most n records with a name of names and an ingredient
\* list of ingredient_lists.  filename is the opaque document reference; the
\* record at catalog position p carries p, so a result names its record.
Catalogs(names, ingredient_lists, n) ==
    UNION {
        {[p \in 1..k |-> [name |-> f[p][1],
                          filename |-> p,
                          ingredients_normalized |-> f[p][2]]] :
            f \in [1..k -> names \X ingredient_lists]} :
        k \in 0..n}

(***************************************************************************)
(* Calls of the pure functions                                             *)
(***************************************************************************)
\* The variables of the calls a specification does not make.
NormalizeIdle == text = <<>> /\ norm_out = <<>>

MatchIdle == user_ing = <<>> /\ recipe_ing = <<>> /\ match_out = FALSE

FilterIdle == recipes = <<>> /\ user_ingredients = <<>> /\ results = <<>>

SessionIdle ==
    new_ingredient = <<>> /\ ingredients = <<>> /\ selected_recipe = NoSelection

InitNormalize ==
    /\ pc = "normalize_call"
    /\ text \in TextInputs
    /\ norm_out = <<>>
    /\ MatchIdle /\ FilterIdle /\ SessionIdle

CallNormalize ==
    /\ pc = "normalize_call"
    /\ norm_out' = normalize_text(text)
    /\ pc' = "normalize_done"
    /\ UNCHANGED <<text, matchVars, filterVars, sessionVars>>

SpecNormalize == InitNormalize /\ [][CallNormalize]_vars

InitMatch ==
    /\ pc = "match_call"
    /\ user_ing \in UserInputs
    /\ recipe_ing \in RecipeInputs
    /\ match_out = FALSE
    /\ NormalizeIdle /\ FilterIdle /\ SessionIdle

CallMatch ==
    /\ pc = "match_call"
    /\ match_out' = ingredient_matches(user_ing, recipe_ing)
    /\ pc' = "match_done"
    /\ UNCHANGED <<user_ing, recipe_ing, normalizeVars, filterVars, sessionVars>>

SpecMatch == InitMatch /\ [][CallMatch]_vars

InitFilter ==
    /\ pc = "filter_call"
    /\ recipes \in Catalogs(FilterNames,
                            Lists(IngredientPool, MaxRecipeIngredients),
                            MaxRecipes)
    /\ user_ingredients \in Lists(UserPool, MaxUserIngredients)
    /\ results = <<>>
    /\ NormalizeIdle /\ MatchIdle /\ SessionIdle

CallFilter ==
    /\ pc = "filter_call"
    /\ results' = find_matching_recipes(recipes, user_ingredients)
    /\ pc' = "filter_done"
    /\ UNCHANGED <<recipes, user_ingredients, normalizeVars, matchVars, sessionVars>>

SpecFilter == InitFilter /\ [][CallFilter]_vars

\* Catalogs whose records qualify, to look at the order of the results.
InitSort ==
    /\ pc = "filter_call"
    /\ recipes \in Catalogs(SortNames, {<<S_egg>>, <<S_fox_egg>>}, MaxSortRecipes)
    /\ user_ingredients \in {<<S_Egg>>, <<S_ox>>}
    /\ results = <<>>
    /\ NormalizeIdle /\ MatchIdle /\ SessionIdle

SpecSort == InitSort /\ [][CallFilter]_vars

(***************************************************************************)
(* The Streamlit session of main()                                         *)
(***************************************************************************)
MaxSessionIngredients == 2

\* The quick-add list of main().
common == <<S_chicken, S_beef, S_salmon, S_pork, S_rice, S_pasta,
            S_potato, S_cheese, S_garlic, S_onion, S_tomato, S_eggs>>

\* What the user types into the text input.
FreeTexts == {<<>>, S_Chicken, S_Basil, S_rice_}

\* Catalogs load_recipes may return; main() stops before the session when
\* the catalog is empty.
SessionCatalogs ==
    {<<[name |-> S_Tomato_Soup, filename |-> 1,
        ingredients_normalized |-> <<S_tomato, S_cream, S_basil>>],
       [name |-> S_Tomato_Salad, filename |-> 2,
        ingredients_normalized |-> <<S_tomato, S_onion>>]>>,
     <<[name |-> S_Tomato_Soup, filename |-> 1,
        ingredients_normalized |-> <<S_tomato, S_cream, S_basil>>],
       [name |-> S_Chicken_Rice, filename |-> 2,
        ingredients_normalized |-> <<S_chicken_breast, S_rice, S_rice>>],
       [name |-> S_Apple_Pie, filename |-> 3,
        ingredients_normalized |-> <<S_eggs, S_cheese>>]>>}

InitSession ==
    /\ pc = "session"
    /\ recipes \in SessionCatalogs
    /\ new_ingredient = <<>>
    /\ ingredients = <<>>
    /\ selected_recipe = NoSelection
    /\ user_ingredients = <<>> /\ results = <<>>
    /\ NormalizeIdle /\ MatchIdle

\* [i.lower() for i in st.session_state.ingredients]
LoweredList(lst) == [k \in 1..Len(lst) |-> Lower(lst[k])]

\* The user edits the text input; the script reruns and nothing else changes.
TypeText(x) ==
    /\ pc = "session"
    /\ x # new_ingredient
    /\ new_ingredient' = x
    /\ UNCHANGED <<pc, ingredients, selected_recipe,
                   normalizeVars, matchVars, filterVars>>

\* A plausible slip: the text is appended as typed, not lower-cased.
AddKeepingCase ==
    /\ pc = "session"
    /\ IF /\ ~Falsy(new_ingredient)
          /\ ~InList(Lower(new_ingredient), LoweredList(ingredients))
       THEN /\ Len(ingredients) < MaxSessionIngredients
            /\ ingredients' = Append(ingredients, new_ingredient)
            /\ selected_recipe' = NoSelection
       ELSE UNCHANGED <<ingredients, selected_recipe>>
    /\ UNCHANGED <<pc, new_ingredient, normalizeVars, matchVars, filterVars>>

\* The "Add" button.
Add ==
    /\ pc = "session"
    /\ IF /\ ~Falsy(new_ingredient)
          /\ ~InList(Lower(new_ingredient), LoweredList(ingredients))
       THEN /\ Len(ingredients) < MaxSessionIngredients
            /\ ingredients' = Append(ingredients, Lower(new_ingredient))
            /\ selected_recipe' = NoSelection
       ELSE UNCHANGED <<ingredients, selected_recipe>>
    /\ UNCHANGED <<pc, new_ingredient, normalizeVars, matchVars, filterVars>>

\* The "Clear" button.
Clear ==
    /\ pc = "session"
    /\ ingredients' = <<>>
    /\ selected_recipe' = NoSelection
    /\ UNCHANGED <<pc, new_ingredient, normalizeVars, matchVars, filterVars>>

\* A quick-add button.
QuickAdd(ing) ==
    /\ pc = "session"
    /\ IF ~InList(ing, ingredients)
       THEN /\ Len(ingredients) < MaxSessionIngredients
            /\ ingredients' = Append(ingredients, ing)
            /\ selected_recipe' = NoSelection
       ELSE UNCHANGED <<ingredients, selected_recipe>>
    /\ UNCHANGED <<pc, new_ingredient, normalizeVars, matchVars, filterVars>>

\* A plausible slip: the per-item delete keeps the selected recipe.
RemoveKeepingSelection(ing) ==
    /\ pc = "session"
    /\ InList(ing, ingredients)
    /\ ingredients' = RemoveFirst(ingredients, ing)
    /\ UNCHANGED <<pc, new_ingredient, selected_recipe,
                   normalizeVars, matchVars, filterVars>>

\* The delete button next to a listed ingredient.
Remove(ing) ==
    /\ pc = "session"
    /\ InList(ing, ingredients)
    /\ ingredients' = RemoveFirst(ingredients, ing)
    /\ selected_recipe' = NoSelection
    /\ UNCHANGED <<pc, new_ingredient, normalizeVars, matchVars, filterVars>>

\* "Back to Results", shown while a recipe is selected.
BackToResults ==
    /\ pc = "session"
    /\ selected_recipe # NoSelection
    /\ selected_recipe' = NoSelection
    /\ UNCHANGED <<pc, new_ingredient, ingredients,
                   normalizeVars, matchVars, filterVars>>

\* "View Recipe" next to the i-th match, shown while no recipe is selected
\* and the list is not empty.
ViewRecipe(i) ==
    /\ pc = "session"
    /\ selected_recipe = NoSelection
    /\ ingredients # <<>>
    /\ LET matches == find_matching_recipes(recipes, ingredients)
       IN  /\ i \in 1..Len(matches)
           /\ selected_recipe' = matches[i]
    /\ UNCHANGED <<pc, new_ingredient, ingredients,
                   normalizeVars, matchVars, filterVars>>

NextSession ==
    \/ \E x \in FreeTexts : TypeText(x)
    \/ Add
    \/ Clear
    \/ \E k \in 1..Len(common) : QuickAdd(common[k])
    \/ \E k \in 1..Len(ingredients) : Remove(ingredients[k])
    \/ BackToResults
    \/ \E i \in 1..Len(recipes) : ViewRecipe(i)

SpecSession == InitSession /\ [][NextSession]_vars

(***************************************************************************)
(* Properties of normalize_text                                            *)
(***************************************************************************)
IsNormChar(c) == IsLower(c) \/ c = " "

\* s is t with only spaces removed from its two ends.
TrimOf(s, t) ==
    \E i \in 0..Len(t) : \E j \in 0..(Len(t) - i) :
        /\ s = SubSeq(t, i + 1, Len(t) - j)
        /\ \A q \in 1..i : t[q] = " "
        /\ \A q \in (Len(t) - j + 1)..Len(t) : t[q] = " "
        /\ (s # <<>> => s[1] # " " /\ s[Len(s)] # " ")
        /\ (s = <<>> => i + j = Len(t))

\* C8: normalize_text returns the lower-cased input with every character
\* other than a-z and space deleted and the spaces at both ends trimmed; an
\* absent or empty input gives the empty string; the result holds only a-z
\* and spaces, neither starts nor ends with a space, and normalizing it again
\* returns it unchanged.
C8_NormalizeContract ==
    pc = "normalize_done" =>
        /\ (Falsy(text) => norm_out = <<>>)
        /\ (~Falsy(text) => TrimOf(norm_out, SelectSeq(Lower(text), IsNormChar)))
        /\ \A q \in 1..Len(norm_out) : IsNormChar(norm_out[q])
        /\ (norm_out # <<>> => norm_out[1] # " " /\ norm_out[Len(norm_out)] # " ")
        /\ normalize_text(norm_out) = norm_out

C8_Witness ==
    /\ pc = "normalize_done"
    /\ text = S_1_Cup_All_Purpose_Flour_
    /\ norm_out = S_cup_allpurpose_flour

(***************************************************************************)
(* Properties of ingredient_matches                                        *)
(***************************************************************************)
\* a occurs in b at some offset.
Occurs(a, b) ==
    \E k \in 0..(Len(b) - Len(a)) : \A q \in 1..Len(a) : b[k + q] = a[q]

Containment(u, r) == Occurs(u, r) \/ Occurs(r, u)

\* s[i..j] is a whitespace-separated token of s.
IsToken(s, i, j) ==
    /\ 1 <= i /\ i <= j /\ j <= Len(s)
    /\ \A q \in i..j : s[q] # " "
    /\ (i = 1 \/ s[i - 1] = " ")
    /\ (j = Len(s) \/ s[j + 1] = " ")

TokensOf(s) ==
    {SubSeq(s, i, j) : <<i, j>> \in
        {ij \in (1..Len(s)) \X (1..Len(s)) : IsToken(s, ij[1], ij[2])}}

TokenOverlap(u, r) ==
    \E tu \in TokensOf(u) : \E tr \in TokensOf(r) :
        /\ Len(tu) >= 3
        /\ Len(tr) >= 2
        /\ (Occurs(tu, tr) \/ Occurs(tr, tu))

\* C6: ingredient_matches(u, r) is true exactly when both normalized strings
\* are non-empty and either one is a substring of the other, or a user token
\* of length >= 3 and a recipe token of length >= 2 are one a substring of
\* the other.
C6_MatchesIffContainmentOrTokenOverlap ==
    pc = "match_done" =>
        LET u == normalize_text(user_ing)
            r == normalize_text(recipe_ing)
        IN  match_out <=>
                (/\ u # <<>>
                 /\ r # <<>>
                 /\ (Containment(u, r) \/ TokenOverlap(u, r)))

\* Token overlap decides: a match with no containment either way.
C6_Witness ==
    /\ pc = "match_done"
    /\ match_out
    /\ ~Containment(normalize_text(user_ing), normalize_text(recipe_ing))

ShortOnly(u) == \A t \in TokensOf(u) : Len(t) < 3

\* C7 as stated: a user ingredient whose normalized form has only tokens
\* shorter than 3 characters never matches any recipe ingredient.
C7_ShortUserInputNeverMatches ==
    (pc = "match_done" /\ ShortOnly(normalize_text(user_ing))) => ~match_out

\* C7 amended: for such a user ingredient only the token-overlap rule is
\* switched off; ingredient_matches is true exactly when both normalized
\* strings are non-empty and one is a substring of the other.
C7_ShortUserInputMatchesByContainmentOnly ==
    (pc = "match_done" /\ ShortOnly(normalize_text(user_ing))) =>
        LET u == normalize_text(user_ing)
            r == normalize_text(recipe_ing)
        IN  match_out <=> (u # <<>> /\ r # <<>> /\ Containment(u, r))

C7_Witness ==
    /\ pc = "match_done"
    /\ user_ing = S_ox
    /\ recipe_ing = S_fox_meat
    /\ match_out

(***************************************************************************)
(* Properties of find_matching_recipes                                     *)
(***************************************************************************)
\* Every user ingredient matches at least one ingredient of the record.
Qualifies(R, U) ==
    \A i \in 1..Len(U) : \E j \in 1..Len(R.ingredients_normalized) :
        ingredient_matches(U[i], R.ingredients_normalized[j])

\* The record is the source of one of the results.
Appears(R) ==
    \E k \in 1..Len(results) :
        results[k].filename = R.filename /\ results[k].name = R.name

\* The catalog record a result was built from.
RecordOf(res) == recipes[res.filename]

\* C1: for a non-empty user list, a catalog record appears in the output
\* if and only if every user ingredient matches at least one of its
\* ingredients; a record without ingredients never appears.
C1_AppearsIffEveryUserIngredientMatches ==
    (pc = "filter_done" /\ user_ingredients # <<>>) =>
        \A p \in 1..Len(recipes) :
            /\ Appears(recipes[p]) <=> Qualifies(recipes[p], user_ingredients)
            /\ (recipes[p].ingredients_normalized = <<>> => ~Appears(recipes[p]))

\* One record is returned with one of its ingredients serving both user
\* ingredients, another record is left out.
C1_Witness ==
    /\ pc = "filter_done"
    /\ Len(user_ingredients) = 2
    /\ user_ingredients[1] # user_ingredients[2]
    /\ \E p, q \in 1..Len(recipes) :
        /\ Appears(recipes[p])
        /\ Len(recipes[p].ingredients_normalized) = 1
        /\ recipes[q].ingredients_normalized # <<>>
        /\ ~Appears(recipes[q])

\* C2: matched has one entry per user ingredient, in user order, and the
\* i-th entry is the first ingredient in stored order that the i-th user
\* ingredient matches.
C2_MatchedIsFirstMatchPerUserIngredient ==
    pc = "filter_done" =>
        \A k \in 1..Len(results) :
            LET ings == RecordOf(results[k]).ingredients_normalized
                matched == results[k].matched
            IN  /\ Len(matched) = Len(user_ingredients)
                /\ \A i \in 1..Len(user_ingredients) :
                     \E j \in 1..Len(ings) :
                        /\ ingredient_matches(user_ingredients[i], ings[j])
                        /\ \A h \in 1..(j - 1) :
                             ~ingredient_matches(user_ingredients[i], ings[h])
                        /\ matched[i] = ings[j]

\* A user ingredient that matches two different ingredients of a record.
C2_Witness ==
    /\ pc = "filter_done"
    /\ \E k \in 1..Len(results) :
        LET ings == RecordOf(results[k]).ingredients_normalized
        IN  /\ Len(ings) = 2
            /\ ings[1] # ings[2]
            /\ ingredient_matches(user_ingredients[1], ings[1])
            /\ ingredient_matches(user_ingredients[1], ings[2])
            /\ results[k].matched[1] = ings[1]

\* C3: other is the record's ingredient list, in stored order, without the
\* strings equal to an entry of matched; matched and other share no string
\* and every ingredient string is in one of the two.
C3_OtherIsIngredientsNotInMatched ==
    pc = "filter_done" =>
        \A k \in 1..Len(results) :
            LET ings == RecordOf(results[k]).ingredients_normalized
                matched == results[k].matched
                other == results[k].other
                Unmatched(x) == \A i \in 1..Len(matched) : matched[i] # x
            IN  /\ other = SelectSeq(ings, Unmatched)
                /\ \A i \in 1..Len(matched) : \A j \in 1..Len(other) :
                     matched[i] # other[j]
                /\ \A h \in 1..Len(ings) :
                     \/ \E i \in 1..Len(matched) : matched[i] = ings[h]
                     \/ \E j \in 1..Len(other) : other[j] = ings[h]

\* A record that lists one string twice, matched once: other has neither.
C3_Witness ==
    /\ pc = "filter_done"
    /\ \E k \in 1..Len(results) :
        LET ings == RecordOf(results[k]).ingredients_normalized
        IN  /\ Len(ings) = 2
            /\ ings[1] = ings[2]
            /\ Len(results[k].matched) = 1
            /\ results[k].other = <<>>

\* a <= b in code-point lexicographic order: a is a prefix of b, or the
\* first position where they differ holds a smaller character in a.
LexLeq(a, b) ==
    \E n \in 0..Len(a) :
        /\ n <= Len(b)
        /\ \A q \in 1..n : a[q] = b[q]
        /\ \/ n = Len(a)
           \/ (n < Len(b) /\ Ord(a[n + 1]) < Ord(b[n + 1]))

\* C4: the results are in ascending case-sensitive lexicographic order of
\* name, and results with the same name keep their catalog order.
C4_SortedByNameStable ==
    pc = "filter_done" =>
        \A i, j \in 1..Len(results) :
            i < j =>
                /\ LexLeq(results[i].name, results[j].name)
                /\ (results[i].name = results[j].name =>
                        results[i].filename < results[j].filename)

\* The sort moved a record, and two results share a name.
C4_Witness ==
    /\ pc = "filter_done"
    /\ Len(results) = 3
    /\ \E i, j \in 1..3 : i < j /\ results[i].filename > results[j].filename
    /\ \E i, j \in 1..3 : i < j /\ results[i].name = results[j].name

\* C5: an empty user list gives no results whatever the catalog, and an
\* empty catalog gives no results whatever the user list.
C5_EmptyInputGivesEmptyOutput ==
    (pc = "filter_done" /\ (user_ingredients = <<>> \/ recipes = <<>>)) =>
        results = <<>>

\* An empty user list against a catalog whose records all have ingredients.
C5_Witness ==
    /\ pc = "filter_done"
    /\ user_ingredients = <<>>
    /\ Len(recipes) = 2
    /\ \A p \in 1..2 : recipes[p].ingredients_normalized # <<>>
    /\ results = <<>>

(***************************************************************************)
(* Properties of the session                                               *)
(***************************************************************************)
\* No two entries of the list are equal when compared case-insensitively.
NoCaseInsensitiveDuplicate ==
    \A i, j \in 1..Len(ingredients) :
        i # j => Lower(ingredients[i]) # Lower(ingredients[j])

PresentIgnoringCase(x) == InList(Lower(x), LoweredList(ingredients))

\* C9: in every state of a session the ingredient list has no two entries
\* equal case-insensitively, and an Add or Quick Add of an ingredient that is
\* present case-insensitively leaves the list unchanged.
C9_ListHasNoCaseInsensitiveDuplicate ==
    /\ [](pc = "session" => NoCaseInsensitiveDuplicate)
    /\ [][(Add /\ PresentIgnoringCase(new_ingredient))
              => ingredients' = ingredients]_vars
    /\ [][\A k \in 1..Len(common) :
            (QuickAdd(common[k]) /\ PresentIgnoringCase(common[k]))
                => ingredients' = ingredients]_vars

\* The list holds a lower-cased free text, and the text input holds the
\* same text in another case: Add changes nothing here.
C9_Witness ==
    /\ pc = "session"
    /\ Len(ingredients) = 2
    /\ InList(S_basil, ingredients)
    /\ new_ingredient = S_Basil
    /\ ENABLED Add

\* C10: a selected recipe is one of the results of find_matching_recipes on
\* the current list, and every step that changes the list clears the
\* selection.
C10_SelectedRecipeIsACurrentResult ==
    /\ []((pc = "session" /\ selected_recipe # NoSelection) =>
            InList(selected_recipe, find_matching_recipes(recipes, ingredients)))
    /\ [][ingredients' # ingredients => selected_recipe' = NoSelection]_vars

\* A recipe is selected for a list of two ingredients.
C10_Witness ==
    /\ pc = "session"
    /\ selected_recipe # NoSelection
    /\ Len(ingredients) = 2
    /\ Len(selected_recipe.matched) = 2

====
